---- MODULE Spec2Model ----
(***************************************************************************)
(* A model of the gmpy2 multiple-precision floating-point engine (mpfr     *)
(* values, context, text and binary conversion, f2q, object cache) as it   *)
(* is exercised by trunk/test2/gmpy_test_mpf.py and trunk/test.            *)
(*                                                                         *)
(* A Value is a record [cls, sign, prec, exp, mant].  A Finite value is    *)
(*      (-1)^sign * mant * 2^(exp - prec),  2^(prec-1) <= mant < 2^prec,   *)
(* so the leading bit of the mantissa is always set.  Zero, Inf and NaN    *)
(* carry exp = 0 and mant = 0; NaN carries sign 0.                         *)
(***************************************************************************)
EXTENDS Integers, Sequences, FiniteSets, TLC

VARIABLES ctx, regs, shadow, pool, limits, call

vars == <<ctx, regs, shadow, pool, limits, call>>

(***************************************************************************)
(* Bounds of the model.                                                    *)
(***************************************************************************)
\* largest precision (bits) a Value is given
MaxPrec == 3
\* input operands have exponents in -MaxExp .. MaxExp
MaxExp == 2

\* the smallest precision the Context accepts
MinPrec == 2
\* the precision of a fresh Context
DefaultPrec == 3

Precs == MinPrec..MaxPrec
Exps == (0 - MaxExp)..MaxExp
Modes == {"Nearest", "ToZero", "Up", "Down", "AwayFromZero"}

(***************************************************************************)
(* Integer helpers.                                                        *)
(***************************************************************************)
Abs(n) == IF n < 0 THEN 0 - n ELSE n

Max(a, b) == IF a >= b THEN a ELSE b

\* floor(a / b) for b > 0 and any a
FloorDiv(a, b) == IF a >= 0 THEN a \div b ELSE 0 - ((0 - a + b - 1) \div b)

\* number of bits of n >= 1
RECURSIVE BitLen(_)
BitLen(n) == IF n < 2 THEN 1 ELSE 1 + BitLen(n \div 2)

\* num/den >= 2^k,  num, den > 0
GeqPow2(num, den, k) == IF k >= 0 THEN num >= den * 2^k ELSE num * 2^(0-k) >= den

\* the e with 2^(e-1) <= num/den < 2^e
ExpOf(num, den) ==
    LET e0 == BitLen(num) - BitLen(den)
    IN  IF GeqPow2(num, den, e0) THEN e0 + 1 ELSE e0

(***************************************************************************)
(* Values.                                                                 *)
(***************************************************************************)
NaN(p) == [cls |-> "NaN", sign |-> 0, prec |-> p, exp |-> 0, mant |-> 0]

Inf(s, p) == [cls |-> "Inf", sign |-> s, prec |-> p, exp |-> 0, mant |-> 0]

Zero(s, p) == [cls |-> "Zero", sign |-> s, prec |-> p, exp |-> 0, mant |-> 0]

Finite(s, p, e, m) == [cls |-> "Finite", sign |-> s, prec |-> p, exp |-> e, mant |-> m]

FiniteValues ==
    { Finite(s, p, e, m) : s \in {0, 1}, p \in Precs, e \in Exps, m \in 2^(MinPrec-1)..(2^MaxPrec - 1) }

\* the normalised ones: the leading mantissa bit is set
RegularValues == { v \in FiniteValues : 2^(v.prec - 1) <= v.mant /\ v.mant < 2^v.prec }

ZeroValues == { Zero(s, p) : s \in {0, 1}, p \in Precs }

SpecialValues == { Inf(s, p) : s \in {0, 1}, p \in Precs } \cup { NaN(p) : p \in Precs }

Values == RegularValues \cup ZeroValues \cup SpecialValues

\* |v| as an exact fraction <<num, den>>, for Finite v
RatOf(v) ==
    IF v.exp >= v.prec THEN <<v.mant * 2^(v.exp - v.prec), 1>>
    ELSE <<v.mant, 2^(v.prec - v.exp)>>

Neg(v) == IF v.cls = "NaN" THEN v ELSE [v EXCEPT !.sign = 1 - v.sign]

(***************************************************************************)
(* Rounding of an exact positive fraction num/den to prec bits.            *)
(***************************************************************************)
RoundUpP(q, r, den, sign, mode) ==
    CASE mode = "Nearest" -> (2 * r > den) \/ (2 * r = den /\ q % 2 = 1)
      [] mode = "ToZero" -> FALSE
      [] mode = "AwayFromZero" -> r > 0
      [] mode = "Up" -> r > 0 /\ sign = 0
      [] mode = "Down" -> r > 0 /\ sign = 1

RoundRat(sign, num, den, prec, mode) ==
    LET e == ExpOf(num, den)
        k == prec - e
        N == IF k >= 0 THEN num * 2^k ELSE num
        D == IF k >= 0 THEN den ELSE den * 2^(0-k)
        q == N \div D
        r == N % D
        m == IF RoundUpP(q, r, D, sign, mode) THEN q + 1 ELSE q
    IN  IF m = 2^prec THEN Finite(sign, prec, e + 1, 2^(prec-1))
        ELSE Finite(sign, prec, e, m)

\* a signed fraction n/d (d > 0) rounded; an exact zero takes the sign zsign
RoundSigned(n, d, zsign, prec, mode) ==
    IF n = 0 THEN Zero(zsign, prec)
    ELSE RoundRat(IF n < 0 THEN 1 ELSE 0, Abs(n), d, prec, mode)

(***************************************************************************)
(* Arithmetic: the exact result, rounded once to prec bits under mode.     *)
(* NaN, Infinity and signed zero propagate; nothing raises.                *)
(***************************************************************************)
\* the signed numerator of a Finite or Zero value over the denominator RatDen(v)
RatNum(v) ==
    IF v.cls = "Zero" THEN 0
    ELSE IF v.sign = 1 THEN 0 - RatOf(v)[1] ELSE RatOf(v)[1]

RatDen(v) == IF v.cls = "Zero" THEN 1 ELSE RatOf(v)[2]

XorSign(x, y) == IF x.sign = y.sign THEN 0 ELSE 1

\* the sign of an exact zero sum of two operands of signs sx and sy
ZeroSumSign(sx, sy, mode) ==
    IF sx = sy THEN sx ELSE IF mode = "Down" THEN 1 ELSE 0

Add(x, y, prec, mode) ==
    CASE x.cls = "NaN" \/ y.cls = "NaN" -> NaN(prec)
      [] x.cls = "Inf" /\ y.cls = "Inf" ->
            IF x.sign = y.sign THEN Inf(x.sign, prec) ELSE NaN(prec)
      [] x.cls = "Inf" /\ y.cls # "Inf" /\ y.cls # "NaN" -> Inf(x.sign, prec)
      [] y.cls = "Inf" /\ x.cls # "Inf" /\ x.cls # "NaN" -> Inf(y.sign, prec)
      [] OTHER ->
            RoundSigned(RatNum(x) * RatDen(y) + RatNum(y) * RatDen(x),
                        RatDen(x) * RatDen(y),
                        ZeroSumSign(x.sign, y.sign, mode), prec, mode)

Sub(x, y, prec, mode) == Add(x, Neg(y), prec, mode)

Mul(x, y, prec, mode) ==
    CASE x.cls = "NaN" \/ y.cls = "NaN" -> NaN(prec)
      [] (x.cls = "Inf" /\ y.cls = "Zero") \/ (x.cls = "Zero" /\ y.cls = "Inf") -> NaN(prec)
      [] (x.cls = "Inf" /\ y.cls \in {"Inf", "Finite"})
            \/ (y.cls = "Inf" /\ x.cls = "Finite") -> Inf(XorSign(x, y), prec)
      [] OTHER ->
            RoundSigned(RatNum(x) * RatNum(y), RatDen(x) * RatDen(y),
                        XorSign(x, y), prec, mode)

\* a faulty divide: a finite Value over zero is an error
DivRaises(x, y, prec, mode) ==
    CASE x.cls = "NaN" \/ y.cls = "NaN" -> NaN(prec)
      [] x.cls = "Inf" /\ y.cls = "Inf" -> NaN(prec)
      [] x.cls = "Zero" /\ y.cls = "Zero" -> NaN(prec)
      [] x.cls = "Inf" /\ y.cls \in {"Zero", "Finite"} -> Inf(XorSign(x, y), prec)
      [] x.cls = "Finite" /\ y.cls = "Zero" ->
            [cls |-> "ZeroDivisionError", sign |-> 0, prec |-> prec, exp |-> 0, mant |-> 0]
      [] x.cls \in {"Zero", "Finite"} /\ y.cls = "Inf" -> Zero(XorSign(x, y), prec)
      [] x.cls = "Zero" /\ y.cls = "Finite" -> Zero(XorSign(x, y), prec)
      [] OTHER ->
            RoundRat(XorSign(x, y), RatOf(x)[1] * RatOf(y)[2],
                     RatOf(x)[2] * RatOf(y)[1], prec, mode)

Div(x, y, prec, mode) ==
    CASE x.cls = "NaN" \/ y.cls = "NaN" -> NaN(prec)
      [] x.cls = "Inf" /\ y.cls = "Inf" -> NaN(prec)
      [] x.cls = "Zero" /\ y.cls = "Zero" -> NaN(prec)
      [] x.cls = "Inf" /\ y.cls \in {"Zero", "Finite"} -> Inf(XorSign(x, y), prec)
      [] x.cls = "Finite" /\ y.cls = "Zero" -> Inf(XorSign(x, y), prec)
      [] x.cls \in {"Zero", "Finite"} /\ y.cls = "Inf" -> Zero(XorSign(x, y), prec)
      [] x.cls = "Zero" /\ y.cls = "Finite" -> Zero(XorSign(x, y), prec)
      [] OTHER ->
            \* Finite / Finite: (nx/dx) / (ny/dy) = (nx*dy) / (dx*ny)
            RoundRat(XorSign(x, y), RatOf(x)[1] * RatOf(y)[2],
                     RatOf(x)[2] * RatOf(y)[1], prec, mode)

\* sqrt of the positive fraction num/den, rounded to prec bits
SqrtRat(num, den, prec, mode) ==
    LET e == ExpOf(num, den)
        es == FloorDiv(e + 1, 2)
        k == 2 * (prec - es)
        \* N/D = (num/den) * 2^k, the square of the scaled root
        N == IF k >= 0 THEN num * 2^k ELSE num
        D == IF k >= 0 THEN den ELSE den * 2^(0-k)
        q == CHOOSE c \in 2^(prec-1)..(2^prec - 1) :
                 c * c * D <= N /\ N < (c + 1) * (c + 1) * D
        exact == q * q * D = N
        half == (2 * q + 1) * (2 * q + 1) * D
        up == CASE mode = "Nearest" -> (4 * N > half) \/ (4 * N = half /\ q % 2 = 1)
                [] mode \in {"ToZero", "Down"} -> FALSE
                [] mode \in {"Up", "AwayFromZero"} -> ~exact
        m == IF up THEN q + 1 ELSE q
    IN  IF m = 2^prec THEN Finite(0, prec, es + 1, 2^(prec-1))
        ELSE Finite(0, prec, es, m)

Sqrt(x, prec, mode) ==
    CASE x.cls = "NaN" -> NaN(prec)
      [] x.cls = "Zero" -> Zero(x.sign, prec)
      [] x.cls = "Inf" -> IF x.sign = 0 THEN Inf(0, prec) ELSE NaN(prec)
      [] x.cls = "Finite" ->
            IF x.sign = 1 THEN NaN(prec)
            ELSE SqrtRat(RatOf(x)[1], RatOf(x)[2], prec, mode)

(***************************************************************************)
(* Comparison by mathematical value: "unordered" with a NaN operand, else  *)
(* "lt", "eq" or "gt".                                                     *)
(***************************************************************************)
\* the position of a non-NaN value among -Inf < finite < +Inf
Rank(v) == IF v.cls = "Inf" THEN (IF v.sign = 1 THEN 0 - 1 ELSE 1) ELSE 0

Order(n) == IF n < 0 THEN "lt" ELSE IF n > 0 THEN "gt" ELSE "eq"

\* a faulty compare: Values of equal value are ordered by their precision
CmpBits(x, y) ==
    CASE x.cls = "NaN" \/ y.cls = "NaN" -> "unordered"
      [] x.cls # "NaN" /\ y.cls # "NaN" /\ (x.cls = "Inf" \/ y.cls = "Inf") ->
            Order(Rank(x) - Rank(y))
      [] OTHER ->
            LET d == RatNum(x) * RatDen(y) - RatNum(y) * RatDen(x)
            IN  IF d = 0 THEN Order(x.prec - y.prec) ELSE Order(d)

Cmp(x, y) ==
    CASE x.cls = "NaN" \/ y.cls = "NaN" -> "unordered"
      [] x.cls # "NaN" /\ y.cls # "NaN" /\ (x.cls = "Inf" \/ y.cls = "Inf") ->
            Order(Rank(x) - Rank(y))
      [] OTHER -> Order(RatNum(x) * RatDen(y) - RatNum(y) * RatDen(x))

Eq(x, y) == Cmp(x, y) = "eq"

Lt(x, y) == Cmp(x, y) = "lt"

Gt(x, y) == Cmp(x, y) = "gt"

(***************************************************************************)
(* round(value, new_precision) and mpfr(value, precision): a new Value at  *)
(* the new precision; the argument is left as it is.                       *)
(***************************************************************************)
\* a faulty round: the bits beyond the new precision are dropped
RoundTruncate(v, prec, mode) ==
    CASE v.cls = "NaN" -> NaN(prec)
      [] v.cls = "Inf" -> Inf(v.sign, prec)
      [] v.cls = "Zero" -> Zero(v.sign, prec)
      [] v.cls = "Finite" -> RoundRat(v.sign, RatOf(v)[1], RatOf(v)[2], prec, "ToZero")

Round(v, prec, mode) ==
    CASE v.cls = "NaN" -> NaN(prec)
      [] v.cls = "Inf" -> Inf(v.sign, prec)
      [] v.cls = "Zero" -> Zero(v.sign, prec)
      [] v.cls = "Finite" -> RoundRat(v.sign, RatOf(v)[1], RatOf(v)[2], prec, mode)

(***************************************************************************)
(* Parser / Formatter.  A digit string is a record                         *)
(*   [kind, neg, digits, exp, prec]:  kind "num" stands for                *)
(*   (-1)^neg * 0.d1 d2 ... dn * base^exp  (exp is the decimal-point       *)
(*   position, prec the precision used); "inf" and "nan" are the           *)
(*   distinguished literals; "error_base" and "error_digits" are the two   *)
(*   ValueErrors of digits().                                              *)
(***************************************************************************)
MinBase == 2

MaxBase == 62

Bases == MinBase..MaxBase

Text(kind, neg, ds, e, p) == [kind |-> kind, neg |-> neg, digits |-> ds, exp |-> e, prec |-> p]

RECURSIVE DigitsToInt(_, _)
DigitsToInt(ds, base) ==
    IF ds = <<>> THEN 0
    ELSE DigitsToInt(SubSeq(ds, 1, Len(ds) - 1), base) * base + ds[Len(ds)]

IntToDigits(n, base, len) == [i \in 1..len |-> (n \div base^(len - i)) % base]

\* a faulty test: no base counts as a power of two
IsPow2Never(b) == FALSE

IsPow2(b) == \E k \in 1..6 : b = 2^k

\* the least k with base^k >= 2^bits
RECURSIVE DigitsFor(_, _, _)
DigitsFor(bits, base, k) ==
    IF base^k >= 2^bits THEN k ELSE DigitsFor(bits, base, k + 1)

\* a faulty digit count: one digit short
MinDigitsShort(prec, base) ==
    DigitsFor(IF IsPow2(base) THEN prec - 1 ELSE prec, base, 0)

\* digits(base, 0): enough digits to read the value back at its own precision
MinDigits(prec, base) ==
    1 + DigitsFor(IF IsPow2(base) THEN prec - 1 ELSE prec, base, 0)

\* the d with base^(d-1) <= num/den < base^d
RECURSIVE PointUp(_, _, _, _)
PointUp(num, den, base, d) ==
    IF num < den * base^d THEN d ELSE PointUp(num, den, base, d + 1)

RECURSIVE PointDown(_, _, _, _)
PointDown(num, den, base, d) ==
    IF num * base^(1 - d) >= den THEN d ELSE PointDown(num, den, base, d - 1)

PointPos(num, den, base) ==
    IF num >= den THEN PointUp(num, den, base, 1) ELSE PointDown(num, den, base, 0)

\* the positive fraction num/den rounded to an integer
RoundInt(num, den, sign, mode) ==
    LET q == num \div den
        r == num % den
    IN  IF RoundUpP(q, r, den, sign, mode) THEN q + 1 ELSE q

FormatFinite(v, base, m, mode) ==
    LET num == RatOf(v)[1]
        den == RatOf(v)[2]
        d == PointPos(num, den, base)
        k == m - d
        I == IF k >= 0 THEN RoundInt(num * base^k, den, v.sign, mode)
             ELSE RoundInt(num, den * base^(0 - k), v.sign, mode)
    IN  IF I = base^m
        THEN Text("num", v.sign = 1, IntToDigits(base^(m-1), base, m), d + 1, v.prec)
        ELSE Text("num", v.sign = 1, IntToDigits(I, base, m), d, v.prec)

\* a faulty check of the digit count: only negative counts are refused
FormatLenient(v, base, n, mode) ==
    CASE base < MinBase \/ base > MaxBase -> Text("error_base", FALSE, <<>>, 0, 0)
      [] base \in Bases /\ n < 0 -> Text("error_digits", FALSE, <<>>, 0, 0)
      [] OTHER ->
            CASE v.cls = "NaN" -> Text("nan", FALSE, <<>>, 0, 0)
              [] v.cls = "Inf" -> Text("inf", v.sign = 1, <<>>, 0, 0)
              [] v.cls = "Zero" -> Text("num", v.sign = 1, <<0>>, 0, v.prec)
              [] v.cls = "Finite" ->
                    FormatFinite(v, base, IF n = 0 THEN MinDigits(v.prec, base) ELSE n, mode)

Format(v, base, n, mode) ==
    CASE base < MinBase \/ base > MaxBase -> Text("error_base", FALSE, <<>>, 0, 0)
      [] base \in Bases /\ (n < 0 \/ n = 1) -> Text("error_digits", FALSE, <<>>, 0, 0)
      [] OTHER ->
            CASE v.cls = "NaN" -> Text("nan", FALSE, <<>>, 0, 0)
              [] v.cls = "Inf" -> Text("inf", v.sign = 1, <<>>, 0, 0)
              [] v.cls = "Zero" -> Text("num", v.sign = 1, <<0>>, 0, v.prec)
              [] v.cls = "Finite" ->
                    FormatFinite(v, base, IF n = 0 THEN MinDigits(v.prec, base) ELSE n, mode)

\* parse(text, base, precision): the exact value of the digits, rounded once
Parse(t, base, prec, mode) ==
    CASE t.kind = "nan" -> NaN(prec)
      [] t.kind = "inf" -> Inf(IF t.neg THEN 1 ELSE 0, prec)
      [] t.kind = "num" ->
            LET I == DigitsToInt(t.digits, base)
                k == t.exp - Len(t.digits)
                s == IF t.neg THEN 1 ELSE 0
            IN  IF I = 0 THEN Zero(s, prec)
                ELSE IF k >= 0 THEN RoundRat(s, I * base^k, 1, prec, mode)
                ELSE RoundRat(s, I, base^(0 - k), prec, mode)

(***************************************************************************)
(* Binary codec (the "old binary" format of binary() and                   *)
(* mpfr_from_old_binary()).  A zero is the single byte 4.  Otherwise:      *)
(*   byte 1     flags: 8 precision present, 1 negative, 2 negative exponent*)
(*   bytes 2-5  precision, little-endian                                   *)
(*   bytes 6-9  |exponent| in base-256 digits, little-endian               *)
(*   bytes 10.. the base-256 digits B1 B2 ... of the significand,          *)
(*              |value| = 0.B1 B2 ... * 256^exponent                       *)
(***************************************************************************)
Byte == 256

LE4(n) == <<n % Byte, (n \div Byte) % Byte, (n \div (Byte * Byte)) % Byte,
            (n \div (Byte * Byte * Byte)) % Byte>>

UnLE4(bs) == bs[1] + Byte * (bs[2] + Byte * (bs[3] + Byte * bs[4]))

\* the least n >= 1 for which (num/den) * 256^n is an integer
RECURSIVE ByteCount(_, _, _)
ByteCount(num, den, n) ==
    IF (num * Byte^n) % den = 0 THEN n ELSE ByteCount(num, den, n + 1)

Encode(v) ==
    IF v.cls = "Zero" THEN <<4>>
    ELSE
        LET num == RatOf(v)[1]
            den == RatOf(v)[2]
            d == PointPos(num, den, Byte)
            \* f = num/den * 256^(-d), in [1/256, 1)
            fnum == IF d >= 0 THEN num ELSE num * Byte^(0 - d)
            fden == IF d >= 0 THEN den * Byte^d ELSE den
            n == ByteCount(fnum, fden, 1)
            M == (fnum * Byte^n) \div fden
            flags == 8 + (IF v.sign = 1 THEN 1 ELSE 0) + (IF d < 0 THEN 2 ELSE 0)
        IN  <<flags>> \o LE4(v.prec) \o LE4(Abs(d)) \o IntToDigits(M, Byte, n)

\* a sane maximum for the precision field
MaxCodecPrec == 2^30

Corrupt == [cls |-> "CorruptEncoding", sign |-> 0, prec |-> 0, exp |-> 0, mant |-> 0]

\* a faulty decode: the significand is rounded to the Context precision, the
\* precision field of the payload is only checked
DecodeAtContext(bs, ctxprec, mode) ==
    IF bs = <<4>> THEN Zero(0, ctxprec)
    ELSE IF Len(bs) < 10 \/ bs[1] \notin 8..11 THEN Corrupt
    ELSE
        LET prec == UnLE4(SubSeq(bs, 2, 5))
            mag == UnLE4(SubSeq(bs, 6, 9))
            d == IF (bs[1] \div 2) % 2 = 1 THEN 0 - mag ELSE mag
            ms == SubSeq(bs, 10, Len(bs))
            M == DigitsToInt(ms, Byte)
            k == d - Len(ms)
            s == bs[1] % 2
        IN  IF prec < MinPrec \/ prec > MaxCodecPrec \/ M = 0 THEN Corrupt
            ELSE IF k >= 0 THEN RoundRat(s, M * Byte^k, 1, ctxprec, mode)
            ELSE RoundRat(s, M, Byte^(0 - k), ctxprec, mode)

Decode(bs, ctxprec, mode) ==
    IF bs = <<4>> THEN Zero(0, ctxprec)
    ELSE IF Len(bs) < 10 \/ bs[1] \notin 8..11 THEN Corrupt
    ELSE
        LET prec == UnLE4(SubSeq(bs, 2, 5))
            mag == UnLE4(SubSeq(bs, 6, 9))
            d == IF (bs[1] \div 2) % 2 = 1 THEN 0 - mag ELSE mag
            ms == SubSeq(bs, 10, Len(bs))
            M == DigitsToInt(ms, Byte)
            k == d - Len(ms)
            s == bs[1] % 2
        IN  IF prec < MinPrec \/ prec > MaxCodecPrec \/ M = 0 THEN Corrupt
            ELSE IF k >= 0 THEN RoundRat(s, M * Byte^k, 1, prec, mode)
            ELSE RoundRat(s, M, Byte^(0 - k), prec, mode)

(***************************************************************************)
(* f2q: the simplest rational within a relative error bound, by continued  *)
(* fractions.  A bound is a fraction <<en, ed>>; the bound "default" is    *)
(* 2^-(prec-1).  The result is [kind, num, den] with kind "mpz" when the   *)
(* denominator is 1, "mpq" otherwise, "DomainError" for NaN, Infinity or   *)
(* a bound that is not positive.                                           *)
(***************************************************************************)
\* |p/q - num/den| / (num/den) <= en/ed, all positive but p >= 0
RelErrLeq(p, q, num, den, en, ed) ==
    Abs(p * den - num * q) <= (en * num * q) \div ed

\* a faulty loop: the bound is taken as an absolute error
RECURSIVE F2QLoopAbs(_, _, _, _, _, _, _, _, _, _)
F2QLoopAbs(num, den, an, ad, p0, q0, p1, q1, en, ed) ==
    IF Abs(p1 * den - num * q1) <= (en * den * q1) \div ed THEN <<p1, q1>>
    ELSE
        LET r == an % ad
            a == ad \div r
        IN  F2QLoopAbs(num, den, ad, r, p1, q1, a * p1 + p0, a * q1 + q0, en, ed)

\* a faulty loop: the integer part is never tested against the bound
RECURSIVE F2QLoopEager(_, _, _, _, _, _, _, _, _, _)
F2QLoopEager(num, den, an, ad, p0, q0, p1, q1, en, ed) ==
    IF an % ad = 0 THEN <<p1, q1>>
    ELSE
        LET r == an % ad
            a == ad \div r
            p2 == a * p1 + p0
            q2 == a * q1 + q0
        IN  IF RelErrLeq(p2, q2, num, den, en, ed) THEN <<p2, q2>>
            ELSE F2QLoopEager(num, den, ad, r, p1, q1, p2, q2, en, ed)

\* p1/q1 is the current convergent, p0/q0 the one before, an/ad the current
\* complete quotient of num/den
RECURSIVE F2QLoop(_, _, _, _, _, _, _, _, _, _)
F2QLoop(num, den, an, ad, p0, q0, p1, q1, en, ed) ==
    IF RelErrLeq(p1, q1, num, den, en, ed) THEN <<p1, q1>>
    ELSE
        LET r == an % ad
            a == ad \div r
        IN  F2QLoop(num, den, ad, r, p1, q1, a * p1 + p0, a * q1 + q0, en, ed)

Rational(sign, pq) ==
    [kind |-> IF pq[2] = 1 THEN "mpz" ELSE "mpq",
     num |-> IF sign = 1 THEN 0 - pq[1] ELSE pq[1],
     den |-> pq[2]]

DomainError == [kind |-> "DomainError", num |-> 0, den |-> 0]

F2Q(v, bound) ==
    LET e == IF bound = <<>> THEN <<1, 2^(v.prec - 1)>> ELSE bound
    IN  CASE v.cls \in {"NaN", "Inf"} \/ e[1] <= 0 \/ e[2] <= 0 -> DomainError
          [] v.cls = "Zero" /\ e[1] > 0 /\ e[2] > 0 -> Rational(0, <<0, 1>>)
          [] OTHER ->
                LET num == RatOf(v)[1]
                    den == RatOf(v)[2]
                IN  Rational(v.sign,
                             F2QLoop(num, den, num, den, 1, 0, num \div den, 1, e[1], e[2]))

(***************************************************************************)
(* Context: the default precision and the rounding mode.                   *)
(***************************************************************************)
Context(p, m) == [precision |-> p, rounding |-> m]

ValidPrec(p) == p >= MinPrec /\ p <= MaxCodecPrec

\* a faulty setter: an invalid p is reported and the default precision put
\* in its place
SetPrecisionDefault(c, p) ==
    IF ValidPrec(p) THEN [ctx |-> [c EXCEPT !.precision = p], err |-> "none"]
    ELSE [ctx |-> [c EXCEPT !.precision = DefaultPrec], err |-> "InvalidConfiguration"]

\* context().precision = p: a ValueError on an invalid p, and no change
SetPrecision(c, p) ==
    IF ValidPrec(p) THEN [ctx |-> [c EXCEPT !.precision = p], err |-> "none"]
    ELSE [ctx |-> c, err |-> "InvalidConfiguration"]

SetRounding(c, m) ==
    IF m \in Modes THEN [ctx |-> [c EXCEPT !.rounding = m], err |-> "none"]
    ELSE [ctx |-> c, err |-> "InvalidConfiguration"]

(***************************************************************************)
(* Allocation cache: a pool of dead objects, each remembered by the        *)
(* precision its buffer was last sized for.  limits is                     *)
(* [max_entries, max_limbs].                                               *)
(***************************************************************************)
\* bits per limb
LimbBits == 4
\* most entries set_cache() is given
MaxCache == 2

Limbs(prec) == (prec + LimbBits - 1) \div LimbBits

Limits(n, l) == [max_entries |-> n, max_limbs |-> l]

RemoveAt(sq, i) == SubSeq(sq, 1, i - 1) \o SubSeq(sq, i + 1, Len(sq))

\* a faulty acquire: the object taken from the pool keeps the precision it
\* was pooled with
AcquireStale(pl, prec) ==
    LET hits == { i \in 1..Len(pl) : Limbs(pl[i]) = Limbs(prec) }
    IN  IF hits = {} THEN [prec |-> prec, pool |-> pl, reused |-> FALSE]
        ELSE LET i == CHOOSE j \in hits : \A h \in hits : h <= j
             IN  [prec |-> pl[i], pool |-> RemoveAt(pl, i), reused |-> TRUE]

\* acquire: a pooled buffer of the same limb count, resized to prec, else a
\* fresh one; prec is the precision the object handed out carries
Acquire(pl, prec) ==
    LET hits == { i \in 1..Len(pl) : Limbs(pl[i]) = Limbs(prec) }
    IN  IF hits = {} THEN [prec |-> prec, pool |-> pl, reused |-> FALSE]
        ELSE LET i == CHOOSE j \in hits : \A h \in hits : h <= j
             IN  [prec |-> prec, pool |-> RemoveAt(pl, i), reused |-> TRUE]

\* release: pooled when there is room and the buffer is under the ceiling,
\* freed otherwise
Release(pl, prec, lim) ==
    IF Len(pl) < lim.max_entries /\ Limbs(prec) <= lim.max_limbs
    THEN Append(pl, prec) ELSE pl

RECURSIVE Evict(_, _)
Evict(pl, lim) ==
    IF pl = <<>> THEN <<>>
    ELSE LET rest == Evict(SubSeq(pl, 1, Len(pl) - 1), lim)
             last == pl[Len(pl)]
         IN  IF Len(rest) < lim.max_entries /\ Limbs(last) <= lim.max_limbs
             THEN Append(rest, last) ELSE rest

SetCacheLimits(pl, n, l) == [limits |-> Limits(n, l), pool |-> Evict(pl, Limits(n, l))]

(***************************************************************************)
(* A session of the library: the name a of the test module bound to a      *)
(* Value, the Context, the cache.  call is the outcome of the last call:   *)
(* its kind, its result out, the error raised, and whether an object of    *)
(* the cache was reused.  shadow is the same session run with caching      *)
(* disabled, as _test() runs the doctests a second time.                   *)
(***************************************************************************)
Regs == {"a"}

None == [cls |-> "None", sign |-> 0, prec |-> 0, exp |-> 0, mant |-> 0]

\* the literals mpfr() is given: '1.1', '0', '-0.5', 'nan'
Literals ==
    { Text("num", FALSE, <<1, 1>>, 1, 0), Text("num", FALSE, <<0>>, 0, 0),
      Text("num", TRUE, <<5>>, 0, 0), Text("nan", FALSE, <<>>, 0, 0) }

LiteralBase == 10

Ops == {"add", "sub", "mul", "div", "sqrt"}

Apply(op, x, y, prec, mode) ==
    CASE op = "add" -> Add(x, y, prec, mode)
      [] op = "sub" -> Sub(x, y, prec, mode)
      [] op = "mul" -> Mul(x, y, prec, mode)
      [] op = "div" -> Div(x, y, prec, mode)
      [] op = "sqrt" -> Sqrt(x, prec, mode)

\* set_cache(0, 128): caching disabled
CacheObSize == 128

NoCache == Limits(0, CacheObSize)

Call(kind, out, err, reused) ==
    [kind |-> kind, out |-> out, err |-> err, reused |-> reused]

NoCall == Call("none", <<>>, "none", FALSE)

\* the run with caching disabled: its Values and the result of its last call
Shadow(rg, out) == [regs |-> rg, out |-> out]

\* the object a name was bound to is released when the name is rebound
ReleaseReg(pl, v, lim) == IF v = None THEN pl ELSE Release(pl, v.prec, lim)

\* r = mpfr(lit): a new object at the Context precision
DoConstruct(rg, pl, lim, c, r, lit) ==
    LET a == Acquire(pl, c.precision)
        v == Parse(lit, LiteralBase, a.prec, c.rounding)
    IN  [regs |-> [rg EXCEPT ![r] = v], pool |-> ReleaseReg(a.pool, rg[r], lim),
         reused |-> a.reused]

\* r = r op mpfr(lit): a temporary for the literal, then the result object, both
\* at the Context precision; the old r and the temporary are released
DoArith(rg, pl, lim, c, op, r, lit) ==
    LET t == Acquire(pl, c.precision)
        tv == Parse(lit, LiteralBase, t.prec, c.rounding)
        a == Acquire(t.pool, c.precision)
        v == Apply(op, rg[r], tv, a.prec, c.rounding)
    IN  [regs |-> [rg EXCEPT ![r] = v],
         pool |-> Release(ReleaseReg(a.pool, rg[r], lim), tv.prec, lim),
         reused |-> t.reused \/ a.reused]

\* round(r, p): a new object at precision p, released once it is shown
DoRound(rg, pl, lim, c, r, p) ==
    LET a == Acquire(pl, p)
        v == Round(rg[r], a.prec, c.rounding)
    IN  [out |-> v, pool |-> Release(a.pool, v.prec, lim), reused |-> a.reused]

\* del(r)
DoDel(rg, pl, lim, r) ==
    [regs |-> [rg EXCEPT ![r] = None], pool |-> ReleaseReg(pl, rg[r], lim)]

\* a faulty setter: the Values already bound are rounded to the new precision
DoSetPrecRetro(rg, c, p) ==
    LET s == SetPrecision(c, p)
    IN  [ctx |-> s.ctx,
         regs |-> [r \in DOMAIN rg |->
                      IF rg[r] = None \/ s.err # "none" THEN rg[r]
                      ELSE Round(rg[r], p, c.rounding)],
         err |-> s.err]

\* context().precision = p; the Values already bound are not touched
DoSetPrec(rg, c, p) ==
    LET s == SetPrecision(c, p)
    IN  [ctx |-> s.ctx, regs |-> rg, err |-> s.err]

\* context().round = m
DoSetRound(rg, c, m) ==
    LET s == SetRounding(c, m)
    IN  [ctx |-> s.ctx, regs |-> rg, err |-> s.err]

\* the results kept in the session stay within the model's exponent range
InRange(v) == v.cls # "Finite" \/ v.exp \in Exps

(***************************************************************************)
(* The calls of a session.                                                 *)
(***************************************************************************)
ConstructCall(r, lit) ==
    LET s == DoConstruct(regs, pool, limits, ctx, r, lit)
    IN  /\ regs' = s.regs /\ pool' = s.pool
        /\ call' = Call("value", <<>>, "none", s.reused)
        /\ UNCHANGED <<ctx, limits>>

ArithCall(op, r, lit) ==
    /\ regs[r] # None
    /\ LET s == DoArith(regs, pool, limits, ctx, op, r, lit)
       IN  /\ InRange(s.regs[r])
           /\ regs' = s.regs /\ pool' = s.pool
           /\ call' = Call("value", <<>>, "none", s.reused)
    /\ UNCHANGED <<ctx, limits>>

RoundToCall(r, p) ==
    /\ regs[r] # None
    /\ LET s == DoRound(regs, pool, limits, ctx, r, p)
       IN  /\ pool' = s.pool
           /\ call' = Call("round", s.out, "none", s.reused)
    /\ UNCHANGED <<ctx, regs, limits>>

DelCall(r) ==
    /\ regs[r] # None
    /\ LET s == DoDel(regs, pool, limits, r)
       IN  regs' = s.regs /\ pool' = s.pool
    /\ call' = NoCall
    /\ UNCHANGED <<ctx, limits>>

\* set_cache(n, l)
SetCache(n, l) ==
    LET s == SetCacheLimits(pool, n, l)
    IN  /\ limits' = s.limits /\ pool' = s.pool
        /\ call' = NoCall
        /\ UNCHANGED <<ctx, regs, shadow>>

\* context().precision = p
SetPrecCall(p) ==
    LET s == DoSetPrec(regs, ctx, p)
    IN  /\ ctx' = s.ctx /\ regs' = s.regs
        /\ call' = Call("setprec", <<p>>, s.err, FALSE)
        /\ UNCHANGED <<pool, limits>>

\* context().round = m
SetRoundCall(m) ==
    LET s == DoSetRound(regs, ctx, m)
    IN  /\ ctx' = s.ctx /\ regs' = s.regs
        /\ call' = Call("setround", <<m>>, s.err, FALSE)
        /\ UNCHANGED <<pool, limits>>

\* r.digits(10, 0)
DigitsCall(r) ==
    /\ regs[r] # None
    /\ call' = Call("digits", Format(regs[r], LiteralBase, 0, ctx.rounding), "none", FALSE)
    /\ UNCHANGED <<ctx, regs, pool, limits>>

\* r.binary()
BinaryCall(r) ==
    /\ regs[r] # None /\ regs[r].cls \in {"Zero", "Finite"}
    /\ call' = Call("bytes", Encode(regs[r]), "none", FALSE)
    /\ UNCHANGED <<ctx, regs, pool, limits>>

\* f2q(r)
F2qCall(r) ==
    /\ regs[r] # None
    /\ call' = Call("rational", F2Q(regs[r], <<>>), "none", FALSE)
    /\ UNCHANGED <<ctx, regs, pool, limits>>

(***************************************************************************)
(* Spec: the session under the Context, caching disabled.                  *)
(***************************************************************************)
Init ==
    /\ ctx = Context(DefaultPrec, "Nearest")
    /\ regs = [r \in Regs |-> None]
    /\ shadow = Shadow([r \in Regs |-> None], <<>>)
    /\ pool = <<>>
    /\ limits = NoCache
    /\ call = NoCall

Construct(r, lit) == ConstructCall(r, lit) /\ UNCHANGED shadow

Arith(op, r, lit) == ArithCall(op, r, lit) /\ UNCHANGED shadow

RoundTo(r, p) == RoundToCall(r, p) /\ UNCHANGED shadow

Del(r) == DelCall(r) /\ UNCHANGED shadow

SetPrec(p) == SetPrecCall(p) /\ UNCHANGED shadow

SetRound(m) == SetRoundCall(m) /\ UNCHANGED shadow

Digits(r) == DigitsCall(r) /\ UNCHANGED shadow

Binary(r) == BinaryCall(r) /\ UNCHANGED shadow

F2q(r) == F2qCall(r) /\ UNCHANGED shadow

Next ==
    \/ \E r \in Regs, lit \in Literals : Construct(r, lit)
    \/ \E op \in Ops, r \in Regs, lit \in Literals : Arith(op, r, lit)
    \/ \E r \in Regs, p \in Precs : RoundTo(r, p)
    \/ \E r \in Regs : Del(r)
    \/ \E p \in (0 - 1)..MaxPrec : SetPrec(p)
    \/ \E m \in Modes : SetRound(m)
    \/ \E r \in Regs : Digits(r)
    \/ \E r \in Regs : Binary(r)
    \/ \E r \in Regs : F2q(r)

Spec == Init /\ [][Next]_vars

(***************************************************************************)
(* SpecCache: the session with caching enabled, and beside it the same     *)
(* calls with caching disabled (shadow).                                   *)
(***************************************************************************)
CachePrecs == {MinPrec, DefaultPrec}

\* '1.1', '-0.5'
CacheLiterals ==
    { Text("num", FALSE, <<1, 1>>, 1, 0), Text("num", TRUE, <<5>>, 0, 0) }

CacheOps == {"add", "div"}

InitCache ==
    /\ ctx = Context(DefaultPrec, "Nearest")
    /\ regs = [r \in Regs |-> None]
    /\ shadow = Shadow([r \in Regs |-> None], <<>>)
    /\ pool = <<>>
    /\ limits \in { Limits(n, CacheObSize) : n \in 0..MaxCache }
    /\ call = NoCall

CachedConstruct(r, lit) ==
    /\ ConstructCall(r, lit)
    /\ shadow' = Shadow(DoConstruct(shadow.regs, <<>>, NoCache, ctx, r, lit).regs, <<>>)

CachedArith(op, r, lit) ==
    /\ ArithCall(op, r, lit)
    /\ shadow' = Shadow(DoArith(shadow.regs, <<>>, NoCache, ctx, op, r, lit).regs, <<>>)

CachedRoundTo(r, p) ==
    /\ RoundToCall(r, p)
    /\ shadow' = Shadow(shadow.regs, DoRound(shadow.regs, <<>>, NoCache, ctx, r, p).out)

CachedDel(r) ==
    /\ DelCall(r)
    /\ shadow' = Shadow(DoDel(shadow.regs, <<>>, NoCache, r).regs, <<>>)

CachedSetPrec(p) ==
    /\ SetPrecCall(p)
    /\ shadow' = Shadow(DoSetPrec(shadow.regs, ctx, p).regs, <<p>>)

CachedDigits(r) ==
    /\ DigitsCall(r)
    /\ shadow' = Shadow(shadow.regs, Format(shadow.regs[r], LiteralBase, 0, ctx.rounding))

CachedBinary(r) ==
    /\ BinaryCall(r)
    /\ shadow' = Shadow(shadow.regs, IF shadow.regs[r].cls \in {"Zero", "Finite"}
                                     THEN Encode(shadow.regs[r]) ELSE <<>>)

CachedF2q(r) ==
    /\ F2qCall(r)
    /\ shadow' = Shadow(shadow.regs, F2Q(shadow.regs[r], <<>>))

NextCache ==
    \/ \E r \in Regs, lit \in CacheLiterals : CachedConstruct(r, lit)
    \/ \E op \in CacheOps, r \in Regs, lit \in CacheLiterals : CachedArith(op, r, lit)
    \/ \E r \in Regs, p \in CachePrecs : CachedRoundTo(r, p)
    \/ \E r \in Regs : CachedDel(r)
    \/ \E n \in 0..MaxCache, l \in {0, CacheObSize} : SetCache(n, l)
    \/ \E p \in CachePrecs : CachedSetPrec(p)
    \/ \E r \in Regs : CachedDigits(r)
    \/ \E r \in Regs : CachedBinary(r)
    \/ \E r \in Regs : CachedF2q(r)

SpecCache == InitCache /\ [][NextCache]_vars


Applied(kind, arg, out) == [kind |-> kind, arg |-> arg, out |-> out]

Given(arg) == Applied("given", arg, <<>>)

\* a session with nothing bound, the Context c and the call record cl
Fresh(c, cl) ==
    /\ ctx = c
    /\ regs = [r \in Regs |-> None]
    /\ shadow = Shadow([r \in Regs |-> None], <<>>)
    /\ pool = <<>>
    /\ limits = NoCache
    /\ call = cl

(***************************************************************************)
(* SpecCodec: x.binary(), mpfr_from_old_binary() of the bytes, and         *)
(* binary() of the Value read back.                                        *)
(***************************************************************************)
\* exponents small and large enough for the exponent field of the payload
\* to be negative, zero and positive
CodecExps == Exps \cup { e - 16 : e \in Exps } \cup { e + 8 : e \in Exps }

CodecValues ==
    ZeroValues \cup
    { v \in { Finite(s, p, e, m) : s \in {0, 1}, p \in Precs, e \in CodecExps,
                                   m \in 2^(MinPrec - 1)..(2^MaxPrec - 1) } :
        2^(v.prec - 1) <= v.mant /\ v.mant < 2^v.prec }

InitCodec ==
    \E v \in CodecValues, p \in Precs, m \in Modes : Fresh(Context(p, m), Given(<<v>>))

ToBinary ==
    /\ call.kind = "given"
    /\ call' = Applied("binary", call.arg, Encode(call.arg[1]))
    /\ UNCHANGED <<ctx, regs, shadow, pool, limits>>

FromOldBinary ==
    /\ call.kind = "binary"
    /\ call' = Applied("from_old_binary", call.arg \o <<call.out>>,
                       Decode(call.out, ctx.precision, ctx.rounding))
    /\ UNCHANGED <<ctx, regs, shadow, pool, limits>>

ToBinaryAgain ==
    /\ call.kind = "from_old_binary"
    /\ call' = Applied("binary_again", call.arg, Encode(call.out))
    /\ UNCHANGED <<ctx, regs, shadow, pool, limits>>

NextCodec == ToBinary \/ FromOldBinary \/ ToBinaryAgain

SpecCodec == InitCodec /\ [][NextCodec]_vars

\* C2: the Value decoded from the bytes of v compares equal to v (and, v
\* finite, has v's sign, precision, exponent and mantissa), and encoding
\* the decoded Value gives the bytes of v again.
C2_BinaryRoundTrip ==
    /\ call.kind = "from_old_binary" =>
            /\ Eq(call.out, call.arg[1])
            /\ call.arg[1].cls = "Finite" => call.out = call.arg[1]
    /\ call.kind = "binary_again" => call.out = call.arg[2]

\* a negative Value below 1/256 whose precision is not the Context's has
\* been encoded, decoded and encoded again
C2_Witness ==
    /\ call.kind = "binary_again"
    /\ call.arg[1].cls = "Finite"
    /\ call.arg[1].sign = 1
    /\ call.arg[1].prec # ctx.precision
    /\ call.arg[2][1] = 11
    /\ ctx.rounding = "ToZero"

(***************************************************************************)
(* SpecText: v.digits(b, 0) and mpfr() of the digits in base b at the      *)
(* precision of v, under each rounding mode of the Context.                *)
(***************************************************************************)
InitText ==
    \E v \in Values, b \in Bases, m \in Modes :
        Fresh(Context(DefaultPrec, m), Given(<<v, b>>))

DigitsOf ==
    /\ call.kind = "given"
    /\ call' = Applied("digits", call.arg,
                       Format(call.arg[1], call.arg[2], 0, ctx.rounding))
    /\ UNCHANGED <<ctx, regs, shadow, pool, limits>>

MpfrOfDigits ==
    /\ call.kind = "digits"
    /\ call' = Applied("mpfr", call.arg \o <<call.out>>,
                       Parse(call.out, call.arg[2], call.arg[1].prec, ctx.rounding))
    /\ UNCHANGED <<ctx, regs, shadow, pool, limits>>

NextText == DigitsOf \/ MpfrOfDigits

SpecText == InitText /\ [][NextText]_vars

\* the digits stand for exactly the Value they were made from
ExactDigits(t, base, prec) == Parse(t, base, prec, "Down") = Parse(t, base, prec, "Up")

TestA == Finite(0, 24, 7, 16181625)

\* the doctests go from 0.1 down to 0.0000001
MaxErrDigits == 7

\* f2q(a, 10^-k), k = 1 .. 7, as the doctests show it
F2qTable ==
    << <<123, 1>>, <<123, 1>>, <<247, 2>>, <<1358, 11>>, <<7037, 57>>,
       <<15432, 125>>, <<15432, 125>> >>

BoundArg(k) == IF k = 0 THEN <<>> ELSE <<1, 10^k>>

\* the bound f2q(v, BoundArg(k)) works with
BoundOf(v, k) == IF k = 0 THEN <<1, 2^(v.prec - 1)>> ELSE <<1, 10^k>>

InitF2q ==
    \E v \in Values \cup {TestA}, k \in 0..MaxErrDigits :
        Fresh(Context(DefaultPrec, "Nearest"), Given(<<v, k, DomainError>>))

F2qOf ==
    /\ call.kind = "given"
    /\ call' = Applied("f2q", call.arg, F2Q(call.arg[1], BoundArg(call.arg[2])))
    /\ UNCHANGED <<ctx, regs, shadow, pool, limits>>

\* f2q once more, the bound tightened by a digit; the earlier result is kept
F2qTighter ==
    /\ call.kind \in {"f2q", "f2q_tighter"}
    /\ call.arg[2] \in 1..(MaxErrDigits - 1)
    /\ call' = Applied("f2q_tighter", <<call.arg[1], call.arg[2] + 1, call.out>>,
                       F2Q(call.arg[1], BoundArg(call.arg[2] + 1)))
    /\ UNCHANGED <<ctx, regs, shadow, pool, limits>>

NextF2q == F2qOf \/ F2qTighter

SpecF2q == InitF2q /\ [][NextF2q]_vars

\* f2q has been applied to a finite non-zero Value
F2qDone == call.kind \in {"f2q", "f2q_tighter"} /\ call.arg[1].cls = "Finite"

\* the rational r is within the bound of call and has the sign of the Value
WithinBound(r) ==
    LET v == call.arg[1]
        e == BoundOf(v, call.arg[2])
    IN  /\ r.kind \in {"mpz", "mpq"}
        /\ r.den >= 1
        /\ (r.num < 0) = (v.sign = 1)
        /\ RelErrLeq(Abs(r.num), r.den, RatOf(v)[1], RatOf(v)[2], e[1], e[2])

\* the two fractions of denominator q next to num/den
Neighbours(num, den, q) == { (num * q) \div den, (num * q) \div den + 1 }

\* C4 as stated: the result is within the bound and no rational with a
\* strictly smaller denominator is within the bound.
C4_F2qOptimal ==
    F2qDone =>
        LET v == call.arg[1]
            e == BoundOf(v, call.arg[2])
            num == RatOf(v)[1]
            den == RatOf(v)[2]
        IN  /\ WithinBound(call.out)
            /\ \A q \in 1..(call.out.den - 1) : \A p \in Neighbours(num, den, q) :
                    ~RelErrLeq(p, q, num, den, e[1], e[2])

\* C4 amended: the result is within the bound and is a best approximation:
\* every rational with a strictly smaller denominator is farther from the
\* Value than the result is.
C4_F2qBestApproximation ==
    F2qDone =>
        LET v == call.arg[1]
            num == RatOf(v)[1]
            den == RatOf(v)[2]
            r == call.out
        IN  /\ WithinBound(r)
            /\ \A q \in 1..(r.den - 1) : \A p \in Neighbours(num, den, q) :
                    Abs(p * den - num * q) * r.den > Abs(Abs(r.num) * den - num * r.den) * q

\* f2q(a, 0.0001) = 1358/11, while 1111/9 is within 0.0001 of a as well
C4_Witness ==
    /\ F2qDone
    /\ call.arg[1] = TestA
    /\ call.arg[2] = 4
    /\ call.out = Rational(0, <<1358, 11>>)
    /\ RelErrLeq(1111, 9, RatOf(TestA)[1], RatOf(TestA)[2], 1, 10^4)

\* the partial quotients of the continued fraction of n/d
RECURSIVE Quotients(_, _)
Quotients(n, d) == IF d = 0 THEN <<>> ELSE <<n \div d>> \o Quotients(d, n % d)

\* the value <<n, d>> of the continued fraction [qs[i]; qs[i+1], ..., qs[j]]
RECURSIVE CfValue(_, _, _)
CfValue(qs, i, j) ==
    IF i = j THEN <<qs[i], 1>>
    ELSE LET t == CfValue(qs, i + 1, j) IN <<qs[i] * t[1] + t[2], t[1]>>

\* the convergents of num/den, in order
Convergents(num, den) ==
    LET qs == Quotients(num, den) IN [i \in 1..Len(qs) |-> CfValue(qs, 1, i)]

\* the index from i on of the first convergent within the bound e of num/den
RECURSIVE FirstWithin(_, _, _, _, _)
FirstWithin(cs, i, num, den, e) ==
    IF i = Len(cs) \/ RelErrLeq(cs[i][1], cs[i][2], num, den, e[1], e[2]) THEN i
    ELSE FirstWithin(cs, i + 1, num, den, e)

\* C5: the result is the first convergent of the Value's exact rational that
\* is within the bound, no convergent of a smaller denominator is within the
\* bound, the result is an mpz exactly when its denominator is 1, a tighter
\* bound never gives a smaller denominator, and for a = 123.456 the results
\* are those of the doctests.
C5_F2qConvergent ==
    F2qDone =>
        LET v == call.arg[1]
            e == BoundOf(v, call.arg[2])
            num == RatOf(v)[1]
            den == RatOf(v)[2]
            cs == Convergents(num, den)
            first == FirstWithin(cs, 1, num, den, e)
        IN  /\ WithinBound(call.out)
            /\ call.out = Rational(v.sign, cs[first])
            /\ \A j \in 1..Len(cs) :
                    cs[j][2] < call.out.den =>
                        ~RelErrLeq(cs[j][1], cs[j][2], num, den, e[1], e[2])
            /\ (call.out.kind = "mpz") = (call.out.den = 1)
            /\ call.kind = "f2q_tighter" => call.arg[3].den <= call.out.den
            /\ (v = TestA /\ call.arg[2] \in 1..Len(F2qTable)) =>
                    call.out = Rational(0, F2qTable[call.arg[2]])
            /\ (v = TestA /\ call.arg[2] = 0) =>
                    call.out = Rational(0, F2qTable[Len(F2qTable)])

\* f2q(a, ...) tightened from 0.01 to 0.001: the integer 123 gives way to
\* 247/2
C5_Witness ==
    /\ call.kind = "f2q_tighter"
    /\ call.arg[1] = TestA
    /\ call.arg[3] = Rational(0, <<123, 1>>)
    /\ call.arg[3].kind = "mpz"
    /\ call.out = Rational(0, <<247, 2>>)

(***************************************************************************)
(* SpecArith: x op y at the Context precision, one operand at least drawn  *)
(* from the special Values, the zeros and plus and minus one.              *)
(***************************************************************************)
ArithOperands ==
    SpecialValues \cup ZeroValues \cup
    { Finite(s, DefaultPrec, 1, 2^(DefaultPrec - 1)) : s \in {0, 1} }

InitArith ==
    \E x \in Values, y \in ArithOperands, m \in Modes :
        Fresh(Context(DefaultPrec, m), Given(<<x, y>>))

Operate(op) ==
    /\ call.kind = "given"
    /\ call' = Applied(op, call.arg,
                       Apply(op, call.arg[1], call.arg[2], ctx.precision, ctx.rounding))
    /\ UNCHANGED <<ctx, regs, shadow, pool, limits>>

\* the operands the other way round
OperateSwapped(op) ==
    /\ call.kind = "given"
    /\ call' = Applied(op, <<call.arg[2], call.arg[1]>>,
                       Apply(op, call.arg[2], call.arg[1], ctx.precision, ctx.rounding))
    /\ UNCHANGED <<ctx, regs, shadow, pool, limits>>

NextArith ==
    \/ \E op \in Ops : Operate(op)
    \/ \E op \in Ops : OperateSwapped(op)

SpecArith == InitArith /\ [][NextArith]_vars

InitCompare ==
    \E x \in Values, y \in Values, m \in Modes :
        /\ m = "Nearest" \/ y = x
        /\ Fresh(Context(DefaultPrec, m), Given(<<x, y>>))

Compare ==
    /\ call.kind = "given"
    /\ call' = Applied("cmp", call.arg,
                       [cmp |-> Cmp(call.arg[1], call.arg[2]),
                        eq |-> Eq(call.arg[1], call.arg[2]),
                        lt |-> Lt(call.arg[1], call.arg[2]),
                        gt |-> Gt(call.arg[1], call.arg[2]),
                        rev |-> Cmp(call.arg[2], call.arg[1])])
    /\ UNCHANGED <<ctx, regs, shadow, pool, limits>>

\* c = mpfr(x, p); c == x
Recreate(p) ==
    /\ call.kind = "given"
    /\ p >= call.arg[1].prec
    /\ LET c == Round(call.arg[1], p, ctx.rounding)
       IN  call' = Applied("mpfr", <<call.arg[1], p>>,
                           [value |-> c, eq |-> Eq(c, call.arg[1]),
                            cmp |-> Cmp(c, call.arg[2])])
    /\ UNCHANGED <<ctx, regs, shadow, pool, limits>>

NextCompare == Compare \/ \E p \in Precs : Recreate(p)

SpecCompare == InitCompare /\ [][NextCompare]_vars

\* the number of the three relations that hold
Holding(c) ==
    (IF c.lt THEN 1 ELSE 0) + (IF c.eq THEN 1 ELSE 0) + (IF c.gt THEN 1 ELSE 0)

\* equal as numbers, written without the comparison: the same sign, the
\* same exponent and the same leading bits
SameNumber(x, y) ==
    /\ x.cls = "Finite" /\ y.cls = "Finite"
    /\ x.sign = y.sign /\ x.exp = y.exp
    /\ x.mant * 2^y.prec = y.mant * 2^x.prec

\* C7: of two Values neither of which is NaN exactly one of <, ==, > holds
\* whatever their precisions, and x < y exactly when y > x; +0 == -0;
\* Values that are the same number at different precisions are equal; a
\* Value re-created at a higher precision is equal to the original; with a
\* NaN operand (NaN against itself too) none of <, ==, > holds.
C7_CompareByValue ==
    /\ call.kind = "cmp" =>
            LET x == call.arg[1]
                y == call.arg[2]
                c == call.out
            IN  /\ (x.cls # "NaN" /\ y.cls # "NaN") =>
                        /\ Holding(c) = 1
                        /\ c.lt = (c.rev = "gt")
                        /\ c.gt = (c.rev = "lt")
                        /\ c.eq = (c.rev = "eq")
                /\ (x.cls = "Zero" /\ y.cls = "Zero") => c.eq
                /\ SameNumber(x, y) => c.eq
                /\ (x.cls = "Finite" /\ y.cls = "Finite" /\ c.eq) => SameNumber(x, y)
                /\ (x.cls = "NaN" \/ y.cls = "NaN") =>
                        (Holding(c) = 0 /\ c.cmp = "unordered")
    /\ call.kind = "mpfr" =>
            LET x == call.arg[1]
                c == call.out
            IN  /\ c.value.prec = call.arg[2]
                /\ c.eq = (x.cls # "NaN")

\* two Values of different precisions and different mantissas compared and
\* found equal
C7_Witness ==
    /\ call.kind = "cmp"
    /\ call.arg[1].cls = "Finite"
    /\ call.arg[1].prec < call.arg[2].prec
    /\ call.arg[1].mant % 2 = 1
    /\ call.arg[1] # call.arg[2]
    /\ call.out.eq

(***************************************************************************)
(* SpecRound: a literal x read at precision q, the Value rounded to a      *)
(* lower precision p, and x read at precision p directly.                  *)
(***************************************************************************)
\* the precisions of the literals go beyond MaxPrec, as 64, 128 and 256 of
\* the doctests go beyond the default precision
RoundPrecs == MinPrec..(MaxPrec + 3)

HexBase == 16

\* the two-digit literals 0.d1d2 and d1.d2 in base 10 and in base 16
RoundLiterals ==
    { <<Text("num", FALSE, <<d1, d2>>, e, 0), b>> :
        d1 \in 0..9, d2 \in 0..9, e \in {0, 1}, b \in {LiteralBase} } \cup
    { <<Text("num", FALSE, <<d1, d2>>, e, 0), b>> :
        d1 \in 0..15, d2 \in 0..15, e \in {0, 1}, b \in {HexBase} }

InitRound ==
    \E l \in RoundLiterals, q \in RoundPrecs, p \in RoundPrecs, m \in Modes :
        /\ p < q
        /\ Fresh(Context(DefaultPrec, m), Given(<<l[1], l[2], q, p>>))

\* y = mpfr(x, q)
MpfrAt ==
    /\ call.kind = "given"
    /\ call' = Applied("mpfr", call.arg,
                       Parse(call.arg[1], call.arg[2], call.arg[3], ctx.rounding))
    /\ UNCHANGED <<ctx, regs, shadow, pool, limits>>

\* round(y, p)
RoundOf ==
    /\ call.kind = "mpfr"
    /\ call' = Applied("round", call.arg \o <<call.out>>,
                       Round(call.out, call.arg[4], ctx.rounding))
    /\ UNCHANGED <<ctx, regs, shadow, pool, limits>>

\* mpfr(x, p)
MpfrDirect ==
    /\ call.kind = "round"
    /\ call' = Applied("direct", call.arg \o <<call.out>>,
                       Parse(call.arg[1], call.arg[2], call.arg[4], ctx.rounding))
    /\ UNCHANGED <<ctx, regs, shadow, pool, limits>>

NextRound == MpfrAt \/ RoundOf \/ MpfrDirect

SpecRound == InitRound /\ [][NextRound]_vars

\* y lies exactly halfway between two neighbouring Values of precision p:
\* it needs p + 1 bits and no more
Halfway(y, p) ==
    /\ y.cls = "Finite"
    /\ Round(y, p + 1, "ToZero") = Round(y, p + 1, "AwayFromZero")
    /\ Round(y, p, "ToZero") # Round(y, p, "AwayFromZero")

\* C8 as stated: under Nearest, for every literal x and p < q,
\* round(parse(x, q), p) is parse(x, p).
C8_RoundIsDirect ==
    (call.kind = "direct" /\ ctx.rounding = "Nearest") => call.arg[6] = call.out

\* C8 amended: round(parse(x, q), p) is parse(x, p) under a directed
\* rounding mode, and under Nearest whenever x is read exactly at precision
\* q or parse(x, q) is not exactly halfway between two neighbouring Values
\* of precision p.
C8_RoundOnce ==
    call.kind = "direct" =>
        LET x == call.arg[1]
            b == call.arg[2]
            q == call.arg[3]
            p == call.arg[4]
            y == call.arg[5]
        IN  (ctx.rounding # "Nearest" \/ ExactDigits(x, b, q) \/ ~Halfway(y, p)) =>
                call.arg[6] = call.out

\* under Nearest a literal that is not exact at precision q was read as an
\* all-ones mantissa, and rounding it carried into the next power of two,
\* as reading it at precision p directly does
C8_Witness ==
    /\ call.kind = "direct"
    /\ ctx.rounding = "Nearest"
    /\ ~ExactDigits(call.arg[1], call.arg[2], call.arg[3])
    /\ call.arg[5].cls = "Finite"
    /\ call.arg[5].mant = 2^call.arg[3] - 1
    /\ call.arg[6].mant = 2^(call.arg[4] - 1)
    /\ call.arg[6].exp = call.arg[5].exp + 1
    /\ call.arg[6] = call.out

(***************************************************************************)
(* The Context in a session (Spec).                                        *)
(***************************************************************************)
\* C9: context().precision = p with p non-positive or below the minimum
\* fails with the invalid-configuration error and leaves the Context as it
\* was (no default precision is put in its place); a valid p is set; and a
\* Value constructed right after a failed set has the precision that was in
\* force before it.
C9_InvalidPrecision ==
    [][ /\ (call'.kind = "setprec" /\ call'.out[1] < MinPrec) =>
                (call'.err = "InvalidConfiguration" /\ ctx' = ctx)
        /\ (call'.kind = "setprec" /\ call'.out[1] >= MinPrec) =>
                (call'.err = "none" /\ ctx' = Context(call'.out[1], ctx.rounding))
        /\ (call.kind = "setprec" /\ call.err = "InvalidConfiguration"
                /\ call'.kind = "value") =>
                (ctx' = ctx /\ regs'["a"].prec = ctx.precision)
      ]_vars

\* a set of the precision has failed while the Context held a precision
\* other than the default, and a Value is bound
C9_Witness ==
    /\ call.kind = "setprec"
    /\ call.err = "InvalidConfiguration"
    /\ call.out[1] <= 0
    /\ ctx.precision # DefaultPrec
    /\ regs["a"].cls = "Finite"

\* C10: a call that changes the Context leaves every bound Value as it was
\* (precision, sign, exponent, mantissa); round() leaves its argument as it
\* was; a Value constructed after the change has the precision now in
\* force, and a rounded one is rounded under the rounding mode now in force.
C10_ContextFrame ==
    [][ /\ ctx' # ctx => regs' = regs
        /\ call'.kind \in {"setprec", "setround"} => regs' = regs
        /\ call'.kind = "value" => regs'["a"].prec = ctx'.precision
        /\ call'.kind = "round" =>
                (regs' = regs /\ call'.out = Round(regs["a"], call'.out.prec, ctx'.rounding))
      ]_vars

\* the precision was changed while a finite Value of the earlier precision,
\* with a mantissa the new precision cannot hold, stayed bound
C10_Witness ==
    /\ call.kind = "setprec"
    /\ call.err = "none"
    /\ regs["a"].cls = "Finite"
    /\ regs["a"].prec > ctx.precision
    /\ regs["a"].mant % 2 = 1

(***************************************************************************)
(* SpecThreads: the Allocation Cache shared by concurrent threads.  Here   *)
(* the variables read as follows: pool is the sequence of pooled buffers,  *)
(* each [id, limbs]; limits is [max_entries, max_limbs]; regs gives each   *)
(* thread its state [pc, op, held, arg, found, room], held being the       *)
(* buffers its Values own; call is the cache lock.  acquire, release and   *)
(* set_cache_limits each run locked: enter, one or two steps, leave.       *)
(***************************************************************************)
Threads == {"t1", "t2"}

\* most buffers alive at once
MaxBufs == 3

\* the names a buffer can get
BufIds == 1..(MaxBufs + Cardinality(Threads))

\* the limb counts asked for
LimbCounts == {Limbs(MinPrec), Limbs(MinPrec) + 1}

Buffer(i, n) == [id |-> i, limbs |-> n]

NoBuf == Buffer(0, 0)

NoThread == "none"

Lock(holder) == [kind |-> "lock", holder |-> holder]

Thread(pc, op, held, arg, found, room) ==
    [pc |-> pc, op |-> op, held |-> held, arg |-> arg, found |-> found, room |-> room]

IdleThread(held) == Thread("idle", "none", held, <<>>, NoBuf, FALSE)

\* a cache without its lock: any thread enters at any time
CanEnterUnlocked(lk, t) == TRUE

\* a thread may enter the cache when no thread is inside
CanEnter(lk, t) == lk.holder = NoThread

PoolIds(pl) == { pl[i].id : i \in 1..Len(pl) }

\* the buffer a thread has taken out of its Values to release
InFlight(th) == IF th.op = "release" /\ th.pc \in {"check", "put"} THEN {th.arg} ELSE {}

LiveIds(pl, rg) ==
    PoolIds(pl) \cup UNION { { b.id : b \in rg[t].held \cup InFlight(rg[t]) } : t \in Threads }

\* the last buffer of the pool with n limbs, NoBuf when there is none
FindBuffer(pl, n) ==
    LET hits == { i \in 1..Len(pl) : pl[i].limbs = n }
    IN  IF hits = {} THEN NoBuf ELSE pl[CHOOSE j \in hits : \A h \in hits : h <= j]

\* the pool without the buffer b
RECURSIVE Without(_, _)
Without(pl, b) ==
    IF pl = <<>> THEN <<>>
    ELSE IF pl[1].id = b.id THEN Without(Tail(pl), b)
    ELSE <<pl[1]>> \o Without(Tail(pl), b)

\* a buffer fits the cache: there is room and it is under the ceiling
HasRoom(pl, b, lim) == Len(pl) < lim.max_entries /\ b.limbs <= lim.max_limbs

\* the pool cut down to the limits, oldest entries kept
RECURSIVE EvictBuffers(_, _)
EvictBuffers(pl, lim) ==
    IF pl = <<>> THEN <<>>
    ELSE LET rest == EvictBuffers(SubSeq(pl, 1, Len(pl) - 1), lim)
             last == pl[Len(pl)]
         IN  IF HasRoom(rest, last, lim) THEN Append(rest, last) ELSE rest

InitThreads ==
    /\ ctx = Context(DefaultPrec, "Nearest")
    /\ regs = [t \in Threads |-> IdleThread({})]
    /\ shadow = Shadow([r \in Regs |-> None], <<>>)
    /\ pool = <<>>
    /\ limits \in { Limits(n, l) : n \in 0..MaxCache, l \in LimbCounts }
    /\ call = Lock(NoThread)

\* thread t enters operation op with argument arg
Enter(t, op, pc, arg) ==
    /\ regs[t].pc = "idle"
    /\ CanEnter(call, t)
    /\ regs' = [regs EXCEPT ![t] = Thread(pc, op, regs[t].held, arg, NoBuf, FALSE)]
    /\ call' = Lock(t)
    /\ UNCHANGED <<ctx, shadow, pool, limits>>

\* acquire(n): enter
AcquireEnter(t, n) ==
    /\ Cardinality(LiveIds(pool, regs)) < MaxBufs
    /\ Enter(t, "acquire", "find", n)

\* acquire(n): look for a pooled buffer of n limbs
AcquireFind(t) ==
    /\ regs[t].pc = "find"
    /\ regs' = [regs EXCEPT ![t].found = FindBuffer(pool, regs[t].arg), ![t].pc = "take"]
    /\ UNCHANGED <<ctx, shadow, pool, limits, call>>

\* acquire(n): take the buffer found out of the pool, or allocate one
AcquireTake(t) ==
    /\ regs[t].pc = "take"
    /\ LET th == regs[t]
           fresh == Buffer(CHOOSE i \in BufIds \ LiveIds(pool, regs) :
                               \A j \in BufIds \ LiveIds(pool, regs) : i <= j,
                           th.arg)
           got == IF th.found = NoBuf THEN fresh ELSE th.found
       IN  /\ pool' = IF th.found = NoBuf THEN pool ELSE Without(pool, th.found)
           /\ regs' = [regs EXCEPT ![t].held = th.held \cup {got},
                                   ![t].found = got, ![t].pc = "leave"]
    /\ UNCHANGED <<ctx, shadow, limits, call>>

\* release(b): enter, the buffer taken from the Value that owned it
ReleaseEnter(t, b) ==
    /\ b \in regs[t].held
    /\ regs[t].pc = "idle"
    /\ CanEnter(call, t)
    /\ regs' = [regs EXCEPT ![t] = Thread("check", "release", regs[t].held \ {b}, b,
                                          NoBuf, FALSE)]
    /\ call' = Lock(t)
    /\ UNCHANGED <<ctx, shadow, pool, limits>>

\* release(b): is there room, is b under the ceiling
ReleaseCheck(t) ==
    /\ regs[t].pc = "check"
    /\ regs' = [regs EXCEPT ![t].room = HasRoom(pool, regs[t].arg, limits),
                            ![t].pc = "put"]
    /\ UNCHANGED <<ctx, shadow, pool, limits, call>>

\* release(b): pool b, or free it
ReleasePut(t) ==
    /\ regs[t].pc = "put"
    /\ pool' = IF regs[t].room THEN Append(pool, regs[t].arg) ELSE pool
    /\ regs' = [regs EXCEPT ![t].pc = "leave"]
    /\ UNCHANGED <<ctx, shadow, limits, call>>

\* set_cache(n, l): enter
SetLimitsEnter(t, n, l) == Enter(t, "set_cache", "set", <<n, l>>)

\* set_cache(n, l): the new limits, the entries over them evicted at once
SetLimitsApply(t) ==
    /\ regs[t].pc = "set"
    /\ limits' = Limits(regs[t].arg[1], regs[t].arg[2])
    /\ pool' = EvictBuffers(pool, Limits(regs[t].arg[1], regs[t].arg[2]))
    /\ regs' = [regs EXCEPT ![t].pc = "leave"]
    /\ UNCHANGED <<ctx, shadow, call>>

\* the operation is over: the thread leaves the cache
Leave(t) ==
    /\ regs[t].pc = "leave"
    /\ regs' = [regs EXCEPT ![t] = IdleThread(regs[t].held)]
    /\ call' = IF call.holder = t THEN Lock(NoThread) ELSE call
    /\ UNCHANGED <<ctx, shadow, pool, limits>>

NextThreads ==
    \/ \E t \in Threads, n \in LimbCounts : AcquireEnter(t, n)
    \/ \E t \in Threads : AcquireFind(t)
    \/ \E t \in Threads : AcquireTake(t)
    \/ \E t \in Threads : \E b \in regs[t].held : ReleaseEnter(t, b)
    \/ \E t \in Threads : ReleaseCheck(t)
    \/ \E t \in Threads : ReleasePut(t)
    \/ \E t \in Threads, n \in 0..MaxCache, l \in LimbCounts : SetLimitsEnter(t, n, l)
    \/ \E t \in Threads : SetLimitsApply(t)
    \/ \E t \in Threads : Leave(t)

SpecThreads == InitThreads /\ [][NextThreads]_vars

\* the buffers thread t answers for: those of its Values and the one it is releasing
Owned(t) == regs[t].held \cup InFlight(regs[t])

(***************************************************************************)
(* C11: under every interleaving of acquire, release and set_cache by      *)
(* concurrent threads the pool holds at most max_entries buffers, none of  *)
(* more than max_limbs limbs and none twice; no pooled buffer is owned by  *)
(* a thread, no buffer is owned by two threads, and acquire(n) hands out a *)
(* buffer of exactly n limbs.                                              *)
(***************************************************************************)
C11_CacheBounded ==
    /\ Len(pool) <= limits.max_entries
    /\ \A i \in 1..Len(pool) : pool[i].limbs <= limits.max_limbs
    /\ Cardinality(PoolIds(pool)) = Len(pool)
    /\ \A t \in Threads : \A b \in Owned(t) : b.id \notin PoolIds(pool)
    /\ \A t \in Threads : \A u \in Threads \ {t} :
           \A b \in Owned(t) : \A c \in Owned(u) : b.id # c.id
    /\ \A t \in Threads :
           regs[t].op = "acquire" /\ regs[t].pc = "leave"
               => regs[t].found.limbs = regs[t].arg /\ regs[t].found \in regs[t].held

\* a release found the pool full and freed a buffer that was under the
\* ceiling, while the other thread owns a buffer
C11_Witness ==
    \E t \in Threads :
        /\ regs[t].op = "release" /\ regs[t].pc = "leave" /\ ~regs[t].room
        /\ limits.max_entries > 0 /\ Len(pool) = limits.max_entries
        /\ regs[t].arg.limbs <= limits.max_limbs
        /\ \E u \in Threads \ {t} : regs[u].held # {}

(***************************************************************************)
(* SpecContexts: one Context per thread.  Here ctx gives each thread its   *)
(* active Context and regs gives each thread the call it is running:       *)
(* [pc, lit, seen, out], seen being the Context the call started under.    *)
(* A call mpfr(lit) takes two steps so that the other thread can change    *)
(* its own Context while the call runs.                                    *)
(***************************************************************************)
Contexts == { Context(p, m) : p \in Precs, m \in Modes }

Worker(pc, lit, seen, out) == [pc |-> pc, lit |-> lit, seen |-> seen, out |-> out]

IdleWorker == Worker("idle", <<>>, <<>>, None)

\* one Context for the whole process: installing it changes every thread's
InstallShared(cx, t, c) == [u \in Threads |-> c]

\* thread t makes c its active Context
Install(cx, t, c) == [cx EXCEPT ![t] = c]

InitContexts ==
    /\ ctx \in [Threads -> Contexts]
    /\ regs = [t \in Threads |-> IdleWorker]
    /\ shadow = Shadow([r \in Regs |-> None], <<>>)
    /\ pool = <<>>
    /\ limits = NoCache
    /\ call = NoCall

\* context().precision = p in thread t, between two of its calls
ThreadSetPrec(t, p) ==
    /\ regs[t].pc # "running"
    /\ ctx' = Install(ctx, t, SetPrecision(ctx[t], p).ctx)
    /\ UNCHANGED <<regs, shadow, pool, limits, call>>

\* context().round = m in thread t
ThreadSetRound(t, m) ==
    /\ regs[t].pc # "running"
    /\ ctx' = Install(ctx, t, SetRounding(ctx[t], m).ctx)
    /\ UNCHANGED <<regs, shadow, pool, limits, call>>

\* thread t swaps in another Context
ThreadSetContext(t, c) ==
    /\ regs[t].pc # "running"
    /\ ctx' = Install(ctx, t, c)
    /\ UNCHANGED <<regs, shadow, pool, limits, call>>

\* thread t starts mpfr(lit)
ThreadBegin(t, lit) ==
    /\ regs[t].pc # "running"
    /\ regs' = [regs EXCEPT ![t] = Worker("running", lit, ctx[t], None)]
    /\ UNCHANGED <<ctx, shadow, pool, limits, call>>

\* mpfr(lit) completes under the Context active in thread t
ThreadFinish(t) ==
    /\ regs[t].pc = "running"
    /\ regs' = [regs EXCEPT ![t].pc = "done",
                            ![t].out = Parse(regs[t].lit, LiteralBase, ctx[t].precision,
                                             ctx[t].rounding)]
    /\ UNCHANGED <<ctx, shadow, pool, limits, call>>

NextContexts ==
    \/ \E t \in Threads, p \in (0 - 1)..MaxPrec : ThreadSetPrec(t, p)
    \/ \E t \in Threads, m \in Modes : ThreadSetRound(t, m)
    \/ \E t \in Threads, c \in Contexts : ThreadSetContext(t, c)
    \/ \E t \in Threads, lit \in CacheLiterals : ThreadBegin(t, lit)
    \/ \E t \in Threads : ThreadFinish(t)

SpecContexts == InitContexts /\ [][NextContexts]_vars

DigitBases ==
    {MinBase - 2, MinBase - 1, MinBase, MinBase + 1, LiteralBase, HexBase, MaxBase, MaxBase + 1}

DigitCounts == {0 - 1, 0, 1, 2, 3, 4}

InitDigits ==
    \E v \in Values, b \in DigitBases, n \in DigitCounts, m \in Modes :
        Fresh(Context(DefaultPrec, m), Given(<<v, b, n>>))

\* x.digits(base, 0)
DigitsDefault ==
    /\ call.kind = "given"
    /\ call' = Applied("digits0", call.arg,
                       Format(call.arg[1], call.arg[2], 0, ctx.rounding))
    /\ UNCHANGED <<ctx, regs, shadow, pool, limits>>

\* x.digits(base, n), the result of x.digits(base, 0) kept beside it
DigitsCount ==
    /\ call.kind = "digits0"
    /\ call' = Applied("digits", call.arg \o <<call.out>>,
                       Format(call.arg[1], call.arg[2], call.arg[3], ctx.rounding))
    /\ UNCHANGED <<ctx, regs, shadow, pool, limits>>

NextDigits == DigitsDefault \/ DigitsCount

SpecDigits == InitDigits /\ [][NextDigits]_vars

\* the digits t are the magnitude of v correctly rounded under mode: the
\* number they stand for and |v| differ by less than one unit of the last
\* digit, to the side the mode asks for
CorrectlyRounded(t, v, base, mode) ==
    LET I == DigitsToInt(t.digits, base)
        k == Len(t.digits) - t.exp
        num == RatOf(v)[1]
        den == RatOf(v)[2]
        A == IF k >= 0 THEN I * den ELSE I * den * base^(0 - k)
        B == IF k >= 0 THEN num * base^k ELSE num
        U == IF k >= 0 THEN den ELSE den * base^(0 - k)
        below == A <= B /\ B < A + U
        above == A - U < B /\ B <= A
    IN  CASE mode = "Nearest" -> 2 * Abs(A - B) <= U
          [] mode = "ToZero" -> below
          [] mode = "AwayFromZero" -> above
          [] mode = "Up" -> IF v.sign = 0 THEN above ELSE below
          [] mode = "Down" -> IF v.sign = 0 THEN below ELSE above

\* the digits of a Text without the last one
Shorter(t) == [t EXCEPT !.digits = SubSeq(t.digits, 1, Len(t.digits) - 1)]

CarriedDigits(ds) == ds[1] = 1 /\ \A i \in 2..Len(ds) : ds[i] = 0

\* the decimal-point position d of the magnitude of v: base^(d-1) <= |v| < base^d
InDecade(v, base, d) ==
    LET num == RatOf(v)[1]
        den == RatOf(v)[2]
    IN  IF d >= 1 THEN den * base^(d - 1) <= num /\ num < den * base^d
        ELSE den <= num * base^(1 - d) /\ num * base^(0 - d) < den

Uppers == <<"A", "B", "C", "D", "E", "F", "G", "H", "I", "J", "K", "L", "M",
           "N", "O", "P", "Q", "R", "S", "T", "U", "V", "W", "X", "Y", "Z">>

Lowers == <<"a", "b", "c", "d", "e", "f", "g", "h", "i", "j", "k", "l", "m",
           "n", "o", "p", "q", "r", "s", "t", "u", "v", "w", "x", "y", "z">>

LowerChar(c) ==
    IF \E i \in 1..Len(Uppers) : Uppers[i] = c
    THEN Lowers[CHOOSE i \in 1..Len(Uppers) : Uppers[i] = c] ELSE c

UpperChar(c) ==
    IF \E i \in 1..Len(Lowers) : Lowers[i] = c
    THEN Uppers[CHOOSE i \in 1..Len(Lowers) : Lowers[i] = c] ELSE c

\* token.lower(), token.upper()
Lower(t) == [i \in 1..Len(t) |-> LowerChar(t[i])]

Upper(t) == [i \in 1..Len(t) |-> UpperChar(t[i])]

\* token.startswith(prefix)
StartsWith(t, prefix) == Len(t) >= Len(prefix) /\ SubSeq(t, 1, Len(prefix)) = prefix

\* the positions of '=' in a token
EqAt(t) == { i \in 1..Len(t) : t[i] = "=" }

\* token.split('=')[1] raises IndexError when the token has no '='
HasField(t) == EqAt(t) # {}

\* token.split('=')[1]: what stands between the first '=' and the next
SplitField(t) ==
    LET first == CHOOSE i \in EqAt(t) : \A j \in EqAt(t) : i <= j
        later == { j \in EqAt(t) : j > first }
        stop == IF later = {} THEN Len(t) + 1
                ELSE CHOOSE i \in later : \A j \in later : i <= j
    IN  SubSeq(t, first + 1, stop - 1)

\* list.remove(x): the list without the first x
RECURSIVE ListRemove(_, _)
ListRemove(l, x) ==
    IF l = <<>> THEN <<>>
    ELSE IF l[1] = x THEN Tail(l) ELSE <<l[1]>> \o ListRemove(Tail(l), x)

OptForce == <<"-", "-", "f", "o", "r", "c", "e">>
OptLib64 == <<"-", "-", "l", "i", "b", "6", "4">>
OptMpir == <<"-", "-", "m", "p", "i", "r">>
OptGmp == <<"-", "-", "g", "m", "p">>
OptMsys2 == <<"-", "-", "m", "s", "y", "s", "2">>
OptNoMpc == <<"-", "-", "n", "o", "m", "p", "c">>
OptNoMpfr == <<"-", "-", "n", "o", "m", "p", "f", "r">>
OptShared == <<"-", "-", "s", "h", "a", "r", "e", "d">>
OptStatic == <<"-", "-", "s", "t", "a", "t", "i", "c">>
OptDMpir == <<"-", "D", "M", "P", "I", "R">>
OptDGmp == <<"-", "D", "G", "M", "P">>
OptDNoMpc == <<"-", "D", "N", "O", "M", "P", "C">>
OptDNoMpfr == <<"-", "D", "N", "O", "M", "P", "F", "R">>
OptDDir == <<"-", "D", "D", "I", "R">>

\* the script's variables once the defaults are set
Script(platform, argv) ==
    [pc |-> "parse", platform |-> platform, tokens |-> argv, i |-> 1, argv |-> argv,
     mplib |-> IF platform = "MSC" THEN "mpir" ELSE "gmp",
     do_search |-> Lower(argv[2]) \in {<<"b", "u", "i", "l", "d">>, <<"i", "n", "s", "t", "a", "l", "l">>},
     lib_path |-> "lib", defines |-> <<>>, static |-> FALSE, msys2 |-> FALSE,
     link_args |-> <<>>, libs |-> <<>>, extras |-> <<>>, said |-> 0]

\* sys.argv.remove(token)
Removed(S, t) == [S EXCEPT !.argv = ListRemove(S.argv, t)]

\* writeln(...)
Said(S) == [S EXCEPT !.said = S.said + 1]

Defined(S, name, value) == [S EXCEPT !.defines = Append(S.defines, <<name, value>>)]

OnForce(S, t) ==
    IF Lower(t) = OptForce THEN Removed(Defined(S, "FORCE", <<"1">>), t) ELSE S

OnLib64(S, t) ==
    IF Lower(t) = OptLib64 THEN Removed([S EXCEPT !.lib_path = "lib64"], t) ELSE S

OnMpir(S, t) ==
    IF Lower(t) = OptMpir THEN Removed([S EXCEPT !.mplib = "mpir"], t) ELSE S

OnGmp(S, t) ==
    IF Lower(t) = OptGmp THEN Removed([S EXCEPT !.mplib = "gmp"], t) ELSE S

\* a faulty --msys2: the library chosen so far is kept
OnMsys2KeepLib(S, t) ==
    IF Lower(t) = OptMsys2
    THEN Removed(Defined([S EXCEPT !.msys2 = TRUE, !.static = TRUE], "MSYS2", <<"1">>), t)
    ELSE S

OnMsys2(S, t) ==
    IF Lower(t) = OptMsys2
    THEN Removed(Defined([S EXCEPT !.msys2 = TRUE, !.mplib = "gmp", !.static = TRUE],
                         "MSYS2", <<"1">>), t)
    ELSE S

OnNoMpc(S, t) == IF Lower(t) = OptNoMpc THEN Removed(Said(S), t) ELSE S

OnNoMpfr(S, t) == IF Lower(t) = OptNoMpfr THEN Removed(Said(S), t) ELSE S

OnShared(S, t) ==
    IF StartsWith(Lower(t), OptShared)
    THEN Removed(IF HasField(t) THEN Defined(S, "SHARED", SplitField(t)) ELSE Said(S), t)
    ELSE S

OnStatic(S, t) ==
    IF StartsWith(Lower(t), OptStatic)
    THEN Removed(IF HasField(t)
                 THEN [Defined(S, "STATIC", SplitField(t)) EXCEPT !.static = TRUE]
                 ELSE Said(S), t)
    ELSE S

OnDMpir(S, t) ==
    IF StartsWith(Upper(t), OptDMpir) THEN Said(Removed([S EXCEPT !.mplib = "mpir"], t)) ELSE S

OnDGmp(S, t) ==
    IF StartsWith(Upper(t), OptDGmp) THEN Said(Removed([S EXCEPT !.mplib = "gmp"], t)) ELSE S

OnDNoMpc(S, t) == IF StartsWith(Upper(t), OptDNoMpc) THEN Removed(Said(S), t) ELSE S

OnDNoMpfr(S, t) == IF StartsWith(Upper(t), OptDNoMpfr) THEN Removed(Said(S), t) ELSE S

OnDDir(S, t) ==
    IF StartsWith(Upper(t), OptDDir)
    THEN Said(Removed(IF HasField(t) THEN Defined(S, "SHARED", SplitField(t)) ELSE Said(S), t))
    ELSE S

\* the body of the loop: every if in turn
OnToken(S, t) ==
    OnDDir(OnDNoMpfr(OnDNoMpc(OnDGmp(OnDMpir(OnStatic(OnShared(OnNoMpfr(OnNoMpc(
        OnMsys2(OnGmp(OnMpir(OnLib64(OnForce(S, t), t), t), t), t), t), t), t), t), t), t), t), t), t)

\* the value of the last SHARED or STATIC define, '' without one
RECURSIVE PrefixOf(_)
PrefixOf(defs) ==
    IF defs = <<>> THEN <<>>
    ELSE IF defs[Len(defs)][1] \in {"SHARED", "STATIC"} THEN defs[Len(defs)][2]
    ELSE PrefixOf(SubSeq(defs, 1, Len(defs) - 1))

\* os.path.join(prefix, lib_path, name)
PathJoin(prefix, dir, name) == [prefix |-> prefix, dir |-> dir, name |-> name]

\* libs.append(lib), and its archive when linking statically
WithLib(S, prefix, lib, archive) ==
    [S EXCEPT !.libs = Append(S.libs, lib),
              !.extras = IF S.static THEN Append(S.extras, PathJoin(prefix, S.lib_path, archive))
                         ELSE S.extras]

\* after the loop: the link arguments, the defines, libs and extras
Configured(S) ==
    LET prefix == PrefixOf(S.defines)
        L == [S EXCEPT !.link_args = IF S.platform # "MSC" \/ S.msys2 THEN <<>>
                                     ELSE <<"/MANIFEST">>]
        M == IF L.mplib = "mpir" THEN WithLib(Defined(L, "MPIR", <<>>), prefix, "mpir", "libmpir.a")
             ELSE WithLib(L, prefix, "gmp", "libgmp.a")
    IN  [WithLib(WithLib(M, prefix, "mpfr", "libmpfr.a"), prefix, "mpc", "libmpc.a")
            EXCEPT !.pc = "done"]

\* most options on a command line
MaxOpts == 3

\* the options tried: --msys2, --MSYS2, --mpir, --gmp, -DMPIR, -dgmp=1,
\* --static=o, --lib64
Options ==
    { OptMsys2, <<"-", "-", "M", "S", "Y", "S", "2">>, OptMpir, OptGmp, OptDMpir,
      <<"-", "d", "g", "m", "p", "=", "1">>, <<"-", "-", "s", "t", "a", "t", "i", "c", "=", "o">>, OptLib64 }

Commands == {<<"b", "u", "i", "l", "d">>, <<"c", "l", "e", "a", "n">>}

Platforms == {"MSC", "GCC"}

RECURSIVE CommandLines(_)
CommandLines(n) ==
    IF n = 0 THEN { <<>> }
    ELSE CommandLines(n - 1) \cup
         { Append(l, o) : l \in { c \in CommandLines(n - 1) : Len(c) = n - 1 }, o \in Options }

InitSetup ==
    \E pf \in Platforms, cmd \in Commands, opts \in CommandLines(MaxOpts) :
        Fresh(Context(DefaultPrec, "Nearest"),
              Script(pf, <<<<"s", "e", "t", "u", "p", ".", "p", "y">>, cmd>> \o opts))

\* one turn of the loop over the tokens
ParseToken ==
    /\ call.pc = "parse"
    /\ call.i <= Len(call.tokens)
    /\ call' = [OnToken(call, call.tokens[call.i]) EXCEPT !.i = call.i + 1]
    /\ UNCHANGED <<ctx, regs, shadow, pool, limits>>

\* the loop is over: libs, extras, defines
Configure ==
    /\ call.pc = "parse"
    /\ call.i > Len(call.tokens)
    /\ call' = Configured(call)
    /\ UNCHANGED <<ctx, regs, shadow, pool, limits>>

NextSetup == ParseToken \/ Configure

SpecSetup == InitSetup /\ [][NextSetup]_vars

\* the library a token asks for, "" when it asks for none
ChoiceOf(t) ==
    CASE Lower(t) = OptMpir \/ StartsWith(Upper(t), OptDMpir) -> "mpir"
      [] Lower(t) \in {OptGmp, OptMsys2} \/ StartsWith(Upper(t), OptDGmp) -> "gmp"
      [] OTHER -> ""

\* the library the last choosing token asks for, the default without one
RECURSIVE LastChoice(_, _)
LastChoice(tokens, default) ==
    IF tokens = <<>> THEN default
    ELSE IF ChoiceOf(tokens[Len(tokens)]) # "" THEN ChoiceOf(tokens[Len(tokens)])
    ELSE LastChoice(SubSeq(tokens, 1, Len(tokens) - 1), default)

\* the positions of --msys2 on the command line
Msys2At(tokens) == { i \in 1..Len(tokens) : Lower(tokens[i]) = OptMsys2 }

HasDefine(defs, name) == \E i \in 1..Len(defs) : defs[i][1] = name

LibLists == { <<"gmp", "mpfr", "mpc">>, <<"mpir", "mpfr", "mpc">> }

\* C15 as stated: with --msys2 among the tokens the extension is linked
\* statically against gmp, without the MPIR define, whatever the other
\* options and their order; libs is gmp or mpir, then mpfr and mpc.
C15_Msys2ForcesGmp ==
    call.pc = "done" =>
        /\ call.libs \in LibLists
        /\ Msys2At(call.tokens) # {} =>
               /\ call.libs[1] = "gmp"
               /\ ~HasDefine(call.defines, "MPIR")
               /\ call.static

(***************************************************************************)
(* C15 amended: the options are applied in the order they appear and the   *)
(* last of --mpir, --gmp, --msys2, -DMPIR..., -DGMP... chooses the         *)
(* library, the platform default standing when there is none; --msys2      *)
(* among the tokens always gives static linking, the MSYS2 define and no   *)
(* extra link arguments, and gives gmp without the MPIR define whenever    *)
(* no --mpir or -DMPIR... follows the last --msys2.  After parsing         *)
(* libs is gmp or mpir, then mpfr and mpc, and MPIR is defined exactly     *)
(* when libs starts with mpir.                                             *)
(***************************************************************************)
C15_LastChoiceWins ==
    call.pc = "done" =>
        LET default == IF call.platform = "MSC" THEN "mpir" ELSE "gmp"
            ms == Msys2At(call.tokens)
        IN  /\ call.libs \in LibLists
            /\ call.libs[1] = LastChoice(call.tokens, default)
            /\ HasDefine(call.defines, "MPIR") <=> call.libs[1] = "mpir"
            /\ ms # {} =>
                   /\ call.static
                   /\ HasDefine(call.defines, "MSYS2")
                   /\ call.link_args = <<>>
                   /\ Len(call.extras) = Len(call.libs)
                   /\ (\A j \in 1..Len(call.tokens) :
                           (\A i \in ms : j > i) => ChoiceOf(call.tokens[j]) # "mpir")
                          => call.libs[1] = "gmp"

\* --msys2 was given and --mpir after it: the extension is linked statically
\* against mpir, with the MPIR define
C15_Witness ==
    /\ call.pc = "done"
    /\ \E i \in Msys2At(call.tokens) : \E j \in (i + 1)..Len(call.tokens) :
           call.tokens[j] = OptMpir
    /\ call.libs = <<"mpir", "mpfr", "mpc">>
    /\ HasDefine(call.defines, "MPIR")
    /\ call.static
====
